---------------------------- MODULE Spec2Model ----------------------------
(***************************************************************************)
(* Student Risk Dashboard (src/app.py): the start-up pipeline              *)
(*   get_next_version -> safe_load_csv x4 -> groupby aggregates ->         *)
(*   left merges + fillna -> risk_status on every row                      *)
(* and the Dash callback update_dashboard that filters the shared table.   *)
(*                                                                         *)
(* Text is a sequence of one-character strings.  A table is a record       *)
(* [cols |-> sequence of column names, rows |-> sequence of rows], a row   *)
(* being a function from the column names to cell values.  The two mean    *)
(* columns (attendance_percentage, avg_score) of the aggregated and merged *)
(* tables are held in units of 1/Scale, so that every mean of at most      *)
(* MaxEvents integers is an exact integer of the model.                    *)
(***************************************************************************)
EXTENDS Integers, Sequences, FiniteSets, TLC

VARIABLES
    files,           \* the data/ directory: the four CSV files
    version_file,    \* version.txt
    VERSION_STRING,  \* module global set by get_next_version()
    pc,              \* position of the module-level script
    err,             \* the exception that ended the script, "" when none
    students, attendance, tests, fees,   \* the four loaded tables
    att_agg, tests_agg, fees_agg,        \* the three groupby results
    merged,          \* the shared profile table
    history,         \* the profile tables of the completed runs, oldest first
    sessions         \* per UI session: the state of its update_dashboard call

vars == <<files, version_file, VERSION_STRING, pc, err, students, attendance,
          tests, fees, att_agg, tests_agg, fees_agg, merged, history, sessions>>

-----------------------------------------------------------------------------
(* Bounds of the model *)

\* total number of event rows over attendance.csv, tests.csv and fees.csv
MaxEvents == 2
\* number of times the program is started on the same data directory
MaxRuns == 2
\* number of simultaneous UI sessions
NumSessions == 2

StudentIds == {1, 12}
AttVals == {60, 75, 90}
ScoreVals == {0, 50, 80}
FeeVals == {0, 500, 6000}

-----------------------------------------------------------------------------
(* Generic helpers *)

Max2(a, b) == IF a >= b THEN a ELSE b

RECURSIVE Gcd(_, _)
Gcd(a, b) == IF b = 0 THEN a ELSE Gcd(b, a % b)

RECURSIVE LcmUpTo(_)
LcmUpTo(n) == IF n <= 1 THEN 1 ELSE (LcmUpTo(n - 1) * n) \div Gcd(LcmUpTo(n - 1), n)

\* the unit of the mean columns is 1/Scale
Scale == LcmUpTo(MaxEvents)

Range(s) == {s[i] : i \in DOMAIN s}

SeqsUpTo(S, n) == UNION {[1..k -> S] : k \in 0..n}

RECURSIVE SelectRows(_, _)
SelectRows(rows, keep) ==
    IF rows = <<>> THEN <<>>
    ELSE IF keep[1] THEN <<Head(rows)>> \o SelectRows(Tail(rows), Tail(keep))
         ELSE SelectRows(Tail(rows), Tail(keep))

RECURSIVE SortedSeq(_)
SortedSeq(S) ==
    IF S = {} THEN <<>>
    ELSE LET m == CHOOSE x \in S : \A y \in S : x <= y
         IN  <<m>> \o SortedSeq(S \ {m})

RECURSIVE SumOf(_)
SumOf(s) == IF s = <<>> THEN 0 ELSE Head(s) + SumOf(Tail(s))

RECURSIVE MaxOf(_)
MaxOf(s) == IF Len(s) = 1 THEN s[1] ELSE Max2(Head(s), MaxOf(Tail(s)))

Digit(d) ==
    CASE d = 0 -> "0" [] d = 1 -> "1" [] d = 2 -> "2" [] d = 3 -> "3"
      [] d = 4 -> "4" [] d = 5 -> "5" [] d = 6 -> "6" [] d = 7 -> "7"
      [] d = 8 -> "8" [] d = 9 -> "9"

\* astype(str) of a non-negative integer
RECURSIVE Str(_)
Str(n) == IF n < 10 THEN <<Digit(n)>> ELSE Str(n \div 10) \o <<Digit(n % 10)>>

HasCol(df, c) == c \in Range(df.cols)

EmptyTable == [cols |-> <<>>, rows |-> <<>>]

-----------------------------------------------------------------------------
(* Auto-increment version: get_next_version *)

NextNumber(vf) == (IF vf.exists THEN vf.number ELSE 0) + 1

get_next_version ==
    /\ pc = "start"
    /\ version_file' = [exists |-> TRUE, number |-> NextNumber(version_file)]
    /\ VERSION_STRING' = <<"beta_">> \o Str(NextNumber(version_file))
    /\ pc' = "load"
    /\ UNCHANGED <<files, err, students, attendance, tests, fees, att_agg,
                   tests_agg, fees_agg, merged, history, sessions>>

-----------------------------------------------------------------------------
(* safe_load_csv *)

\* df.rename(columns=rename_cols): rename_cols is a sequence of <<from, to>>
\* pairs, <<>> for None
RenamedCol(c, rename_cols) ==
    IF \E p \in Range(rename_cols) : p[1] = c
    THEN (CHOOSE p \in Range(rename_cols) : p[1] = c)[2]
    ELSE c

SourceCol(c, cols, rename_cols) ==
    CHOOSE d \in Range(cols) : RenamedCol(d, rename_cols) = c

Rename(df, rename_cols) ==
    LET cols == [i \in DOMAIN df.cols |-> RenamedCol(df.cols[i], rename_cols)]
    IN  [cols |-> cols,
         rows |-> [i \in DOMAIN df.rows |->
                     [c \in Range(cols) |->
                        df.rows[i][SourceCol(c, df.cols, rename_cols)]]]]

\* for col in required_cols: if col not in df.columns: df[col] = 0
RECURSIVE Backfill(_, _)
Backfill(df, required_cols) ==
    IF required_cols = <<>> THEN df
    ELSE LET col == Head(required_cols)
             d2  == IF HasCol(df, col) THEN df
                    ELSE [cols |-> Append(df.cols, col),
                          rows |-> [i \in DOMAIN df.rows |->
                                      [c \in Range(df.cols) \cup {col} |->
                                         IF c = col THEN 0 ELSE df.rows[i][c]]]]
         IN  Backfill(d2, Tail(required_cols))

\* list(rename_cols.values()) if rename_cols else required_cols
MissingFileCols(rename_cols, required_cols) ==
    IF rename_cols # <<>>
    THEN [i \in DOMAIN rename_cols |-> rename_cols[i][2]]
    ELSE required_cols

safe_load_csv(file, rename_cols, required_cols) ==
    IF file.exists
    THEN Backfill(Rename([cols |-> file.cols, rows |-> file.rows], rename_cols),
                  required_cols)
    ELSE [cols |-> MissingFileCols(rename_cols, required_cols), rows |-> <<>>]

\* required_cols of the four loads, lines 49-52
RequiredCols(src) ==
    CASE src = "students"   -> <<"student_id", "name">>
      [] src = "attendance" -> <<"student_id", "attendance_percentage">>
      [] src = "tests"      -> <<"student_id", "score">>
      [] src = "fees"       -> <<"student_id", "due_amount">>

\* rename_cols of the four loads, lines 49-52
RenameCols(src) ==
    CASE src = "students"   -> << <<"full_name", "name">> >>
      [] src = "attendance" -> <<>>
      [] src = "tests"      -> << <<"test_score", "score">> >>
      [] src = "fees"       -> << <<"pending_amount", "due_amount">> >>

LoadSource(fs, src) == safe_load_csv(fs[src], RenameCols(src), RequiredCols(src))

\* lines 49-52: the four loads
LoadCSVs ==
    /\ pc = "load"
    /\ students' = LoadSource(files, "students")
    /\ attendance' = LoadSource(files, "attendance")
    /\ tests' = LoadSource(files, "tests")
    /\ fees' = LoadSource(files, "fees")
    /\ pc' = "aggregate"
    /\ UNCHANGED <<files, version_file, VERSION_STRING, err, att_agg, tests_agg,
                   fees_agg, merged, history, sessions>>

-----------------------------------------------------------------------------
(* Aggregate: groupby(key)[col].mean() / .max(), reset_index() *)

\* the mean, in units of 1/Scale
Mean(vals) == (SumOf(vals) * Scale) \div Len(vals)

\* df.groupby(key)[col] raises KeyError when either column is absent
GroupByFails(df, key, col) == ~HasCol(df, key) \/ ~HasCol(df, col)

RECURSIVE ColumnWhere(_, _, _, _)
ColumnWhere(rows, key, k, col) ==
    IF rows = <<>> THEN <<>>
    ELSE IF Head(rows)[key] = k
         THEN <<Head(rows)[col]>> \o ColumnWhere(Tail(rows), key, k, col)
         ELSE ColumnWhere(Tail(rows), key, k, col)

\* one row per distinct key, in ascending key order; the value column is named out
GroupBy(df, key, col, out, how) ==
    LET keys == SortedSeq({df.rows[i][key] : i \in DOMAIN df.rows})
    IN  [cols |-> <<key, out>>,
         rows |-> [i \in DOMAIN keys |->
                     [c \in {key, out} |->
                        IF c = key THEN keys[i]
                        ELSE IF how = "mean"
                             THEN Mean(ColumnWhere(df.rows, key, keys[i], col))
                             ELSE MaxOf(ColumnWhere(df.rows, key, keys[i], col))]]]

\* lines 57-59
Aggregate ==
    /\ pc = "aggregate"
    /\ IF \/ GroupByFails(attendance, "student_id", "attendance_percentage")
          \/ GroupByFails(tests, "student_id", "score")
          \/ GroupByFails(fees, "student_id", "due_amount")
       THEN /\ pc' = "error"
            /\ err' = "KeyError"
            /\ UNCHANGED <<att_agg, tests_agg, fees_agg>>
       ELSE /\ att_agg' = GroupBy(attendance, "student_id", "attendance_percentage",
                                  "attendance_percentage", "mean")
            /\ tests_agg' = GroupBy(tests, "student_id", "score", "avg_score", "mean")
            /\ fees_agg' = GroupBy(fees, "student_id", "due_amount", "due_amount",
                                   "max")
            /\ pc' = "merge"
            /\ err' = err
    /\ UNCHANGED <<files, version_file, VERSION_STRING, students, attendance,
                   tests, fees, merged, history, sessions>>

-----------------------------------------------------------------------------
(* Merge: three left merges on student_id, then fillna(0) *)

\* left.merge(right, on=key, how="left") raises KeyError when a side lacks key
MergeFails(left, right, key) == ~HasCol(left, key) \/ ~HasCol(right, key)

RightCols(right, key) == SelectSeq(right.cols, LAMBDA c : c # key)

RECURSIVE MatchesOf(_, _, _)
MatchesOf(rrows, key, k) ==
    IF rrows = <<>> THEN <<>>
    ELSE IF Head(rrows)[key] = k
         THEN <<Head(rrows)>> \o MatchesOf(Tail(rrows), key, k)
         ELSE MatchesOf(Tail(rrows), key, k)

\* The rows a left row becomes: one per matching right row, or one row with
\* NaN in the right columns.  A cell that comes from the right side is <<v>>
\* when present and <<>> when it is NaN.
JoinRow(lrow, lcols, right, key) ==
    LET m     == MatchesOf(right.rows, key, lrow[key])
        rcols == Range(RightCols(right, key))
        all   == Range(lcols) \cup rcols
    IN  IF m = <<>>
        THEN << [c \in all |-> IF c \in rcols THEN <<>> ELSE lrow[c]] >>
        ELSE [j \in DOMAIN m |->
                [c \in all |-> IF c \in rcols THEN <<m[j][c]>> ELSE lrow[c]]]

RECURSIVE JoinRows(_, _, _, _)
JoinRows(lrows, lcols, right, key) ==
    IF lrows = <<>> THEN <<>>
    ELSE JoinRow(Head(lrows), lcols, right, key)
         \o JoinRows(Tail(lrows), lcols, right, key)

\* how="inner": a left row without a match is dropped
RECURSIVE InnerJoinRows(_, _, _, _)
InnerJoinRows(lrows, lcols, right, key) ==
    IF lrows = <<>> THEN <<>>
    ELSE (IF MatchesOf(right.rows, key, Head(lrows)[key]) = <<>> THEN <<>>
          ELSE JoinRow(Head(lrows), lcols, right, key))
         \o InnerJoinRows(Tail(lrows), lcols, right, key)

InnerMerge(left, right, key) ==
    [cols |-> left.cols \o RightCols(right, key),
     rows |-> InnerJoinRows(left.rows, left.cols, right, key)]

LeftMerge(left, right, key) ==
    [cols |-> left.cols \o RightCols(right, key),
     rows |-> JoinRows(left.rows, left.cols, right, key)]

\* fillna(1)
FillNaOne(df, joined) ==
    [cols |-> df.cols,
     rows |-> [i \in DOMAIN df.rows |->
                 [c \in Range(df.cols) |->
                    IF c \in joined
                    THEN (IF df.rows[i][c] = <<>> THEN 1 ELSE df.rows[i][c][1])
                    ELSE df.rows[i][c]]]]

\* fillna(0) over the columns the merges added
FillNa(df, joined) ==
    [cols |-> df.cols,
     rows |-> [i \in DOMAIN df.rows |->
                 [c \in Range(df.cols) |->
                    IF c \in joined
                    THEN (IF df.rows[i][c] = <<>> THEN 0 ELSE df.rows[i][c][1])
                    ELSE df.rows[i][c]]]]

MergeAll(st, a, t, f) ==
    FillNa(LeftMerge(LeftMerge(LeftMerge(st, a, "student_id"), t, "student_id"),
                     f, "student_id"),
           {"attendance_percentage", "avg_score", "due_amount"})

\* lines 64-74; pd.to_numeric leaves the numeric cells of the model as they are
Merge ==
    /\ pc = "merge"
    /\ IF MergeFails(students, att_agg, "student_id")
       THEN /\ pc' = "error"
            /\ err' = "KeyError"
            /\ merged' = merged
       ELSE /\ merged' = MergeAll(students, att_agg, tests_agg, fees_agg)
            /\ pc' = "classify"
            /\ err' = err
    /\ UNCHANGED <<files, version_file, VERSION_STRING, students, attendance,
                   tests, fees, att_agg, tests_agg, fees_agg, history, sessions>>

-----------------------------------------------------------------------------
(* Risk rules: risk_status *)

LowAttendance == 75
ExcellentAttendance == 90
LowScore == 40
StrongScore == 80

\* "; ".join(reasons), as a sequence of tokens
RECURSIVE Join(_, _)
Join(sep, parts) ==
    IF Len(parts) <= 1 THEN parts
    ELSE <<Head(parts), sep>> \o Join(sep, Tail(parts))

\* the lower boundary taken as <= 75
AttendanceReasonsInclusive(row) ==
    IF row.attendance_percentage <= LowAttendance * Scale
    THEN <<"Low Attendance">>
    ELSE IF row.attendance_percentage >= ExcellentAttendance * Scale
         THEN <<"Excellent Attendance">>
         ELSE <<>>

AttendanceReasons(row) ==
    IF row.attendance_percentage < LowAttendance * Scale
    THEN <<"Low Attendance">>
    ELSE IF row.attendance_percentage >= ExcellentAttendance * Scale
         THEN <<"Excellent Attendance">>
         ELSE <<>>

ScoreReasons(row) ==
    IF row.avg_score < LowScore * Scale
    THEN <<"Low Test Score">>
    ELSE IF row.avg_score >= StrongScore * Scale
         THEN <<"Strong Test Score">>
         ELSE <<>>

FeeReasons(row) == IF row.due_amount > 0 THEN <<"Pending Fees">> ELSE <<>>

\* the run counter of get_next_version written into the reasons
risk_status_stamped(row) ==
    LET reasons == AttendanceReasons(row) \o ScoreReasons(row) \o FeeReasons(row)
    IN  IF reasons = <<>>
        THEN <<"Safe", <<"No issues">> \o VERSION_STRING>>
        ELSE <<"At Risk", Join("; ", reasons) \o VERSION_STRING>>

\* <<status, reasons>>; the label texts are the code's without their check mark
risk_status(row) ==
    LET reasons == AttendanceReasons(row) \o ScoreReasons(row) \o FeeReasons(row)
    IN  IF reasons = <<>>
        THEN <<"Safe", <<"No issues">> >>
        ELSE <<"At Risk", Join("; ", reasons)>>

\* merged.apply(risk_status, axis=1, result_type="expand") on a table with rows
ApplyRisk(df) ==
    [cols |-> df.cols \o <<"status", "reasons">>,
     rows |-> [i \in DOMAIN df.rows |->
                 [c \in Range(df.cols) \cup {"status", "reasons"} |->
                    IF c = "status" THEN risk_status(df.rows[i])[1]
                    ELSE IF c = "reasons" THEN risk_status(df.rows[i])[2]
                    ELSE df.rows[i][c]]]]

\* line 96.  On a table without rows DataFrame.apply returns a copy of the
\* table itself, whose five columns cannot be assigned to the two-column key:
\* ValueError("Columns must be same length as key").
Classify ==
    /\ pc = "classify"
    /\ IF merged.rows = <<>>
       THEN /\ pc' = "error"
            /\ err' = "ValueError"
            /\ UNCHANGED <<merged, history>>
       ELSE /\ merged' = ApplyRisk(merged)
            /\ history' = Append(history, merged')
            /\ pc' = "serving"
            /\ err' = err
    /\ UNCHANGED <<files, version_file, VERSION_STRING, students, attendance,
                   tests, fees, att_agg, tests_agg, fees_agg, sessions>>

-----------------------------------------------------------------------------
(* Callback: update_dashboard *)

Lower(c) ==
    CASE c = "A" -> "a" [] c = "B" -> "b" [] c = "L" -> "l" [] c = "O" -> "o"
      [] OTHER -> c

\* One pattern character against one character of the text.  Series.str.contains
\* has regex=True: over the letters, digits and "." of the model the only
\* metacharacter is ".", which matches any character.
PatCharMatches(p, c, ignorecase) ==
    \/ p = "."
    \/ IF ignorecase THEN Lower(p) = Lower(c) ELSE p = c

\* re.search(pat, text): the pattern matches at some offset
StrContains(text, pat, ignorecase) ==
    \E off \in 0..(Len(text) - Len(pat)) :
        \A i \in 1..Len(pat) : PatCharMatches(pat[i], text[off + i], ignorecase)

\* lines 249-253; search is [given |-> FALSE] for None
SearchFilter(rows, search) ==
    IF search.given /\ search.text # <<>>
    THEN SelectRows(rows,
            [i \in DOMAIN rows |->
                \/ StrContains(rows[i].name, search.text, TRUE)
                \/ StrContains(Str(rows[i].student_id), search.text, FALSE)])
    ELSE rows

\* lines 255, 257, 259: unit is the unit of the column
RangeFilter(rows, col, range, unit) ==
    SelectRows(rows,
        [i \in DOMAIN rows |->
            /\ rows[i][col] >= range[1] * unit
            /\ rows[i][col] <= range[2] * unit])

\* lines 261-262
StatusFilter(rows, status_value) ==
    IF status_value # "All"
    THEN SelectRows(rows, [i \in DOMAIN rows |-> rows[i].status = status_value])
    ELSE rows

\* lines 248-262 and the records returned at line 273 (the two histograms are
\* drawn from the same rows and are not part of the model)
update_dashboard(filtered, crit) ==
    StatusFilter(
        RangeFilter(
            RangeFilter(
                RangeFilter(SearchFilter(filtered, crit.search),
                            "attendance_percentage", crit.att_range, Scale),
                "avg_score", crit.score_range, Scale),
            "due_amount", crit.fees_range, 1),
        crit.status)

\* the values of the controls in app.layout (lines 110-160)
DefaultCriteria ==
    [search |-> [given |-> FALSE, text |-> <<>>],
     att_range |-> <<0, 100>>,
     score_range |-> <<0, 100>>,
     fees_range |-> <<0, 5000>>,
     status |-> "All"]

Sessions == 1..NumSessions

IdleSession == [pc |-> "idle", crit |-> DefaultCriteria, filtered |-> <<>>]

\* line 246: the callback is entered with the values of the controls and
\* takes its copy of the shared table
BeginCall(s, crit) ==
    /\ pc = "serving"
    /\ sessions[s].pc = "idle"
    /\ sessions' = [sessions EXCEPT ![s] =
                       [pc |-> "copied", crit |-> crit, filtered |-> merged.rows]]
    /\ UNCHANGED <<files, version_file, VERSION_STRING, pc, err, students,
                   attendance, tests, fees, att_agg, tests_agg, fees_agg, merged,
                   history>>

\* the filters run on the shared table itself: merged = merged[...]
FinishCallInPlace(s) ==
    /\ pc = "serving"
    /\ sessions[s].pc = "copied"
    /\ sessions' = [sessions EXCEPT ![s] =
                       [pc |-> "returned", crit |-> sessions[s].crit,
                        filtered |-> update_dashboard(merged.rows,
                                                      sessions[s].crit)]]
    /\ merged' = [merged EXCEPT !.rows = update_dashboard(merged.rows,
                                                          sessions[s].crit)]
    /\ UNCHANGED <<files, version_file, VERSION_STRING, pc, err, students,
                   attendance, tests, fees, att_agg, tests_agg, fees_agg, history>>

\* lines 248-273: the filters run on the copy and the records are returned
FinishCall(s) ==
    /\ pc = "serving"
    /\ sessions[s].pc = "copied"
    /\ sessions' = [sessions EXCEPT ![s] =
                       [pc |-> "returned", crit |-> sessions[s].crit,
                        filtered |-> update_dashboard(sessions[s].filtered,
                                                      sessions[s].crit)]]
    /\ merged' = merged
    /\ UNCHANGED <<files, version_file, VERSION_STRING, pc, err, students,
                   attendance, tests, fees, att_agg, tests_agg, fees_agg, history>>

\* the response has been sent: the session can call again
Respond(s) ==
    /\ pc = "serving"
    /\ sessions[s].pc = "returned"
    /\ sessions' = [sessions EXCEPT ![s] = IdleSession]
    /\ UNCHANGED <<files, version_file, VERSION_STRING, pc, err, students,
                   attendance, tests, fees, att_agg, tests_agg, fees_agg, merged,
                   history>>

-----------------------------------------------------------------------------
(* The program is started again on the same data directory *)

Restart ==
    /\ pc \in {"serving", "error"}
    /\ version_file.number < MaxRuns
    /\ pc' = "start"
    /\ err' = ""
    /\ VERSION_STRING' = <<>>
    /\ students' = EmptyTable /\ attendance' = EmptyTable
    /\ tests' = EmptyTable /\ fees' = EmptyTable
    /\ att_agg' = EmptyTable /\ tests_agg' = EmptyTable /\ fees_agg' = EmptyTable
    /\ merged' = EmptyTable
    /\ sessions' = [s \in Sessions |-> IdleSession]
    /\ UNCHANGED <<files, version_file, history>>

-----------------------------------------------------------------------------
(* Input files *)

SourceNames == {"students", "attendance", "tests", "fees"}

NameOf(id) == IF id = 1 THEN <<"A", "l">> ELSE <<"B", "o">>

MissingFile == [exists |-> FALSE, cols |-> <<>>, rows |-> <<>>]

\* students.csv with one row per roster entry; namecol is its name column
StudentsFile(roster, namecol) ==
    [exists |-> TRUE,
     cols |-> <<"student_id", namecol>>,
     rows |-> [i \in DOMAIN roster |->
                 [c \in {"student_id", namecol} |->
                    IF c = "student_id" THEN roster[i] ELSE NameOf(roster[i])]]]

\* an event file: events is a sequence of <<student_id, value>>; valcol is
\* the name of the value column, "" when the file has no value column
EventFile(events, valcol) ==
    LET cols == IF valcol = "" THEN <<"student_id">> ELSE <<"student_id", valcol>>
    IN  [exists |-> TRUE,
         cols |-> cols,
         rows |-> [i \in DOMAIN events |->
                     [c \in Range(cols) |->
                        IF c = "student_id" THEN events[i][1] ELSE events[i][2]]]]

\* the column names src/generate_data.py writes
GeneratorDialect ==
    [name |-> "name", att |-> "attendance_percentage", score |-> "score",
     due |-> "pending_amount"]

\* the source-specific names the loads rename, the canonical names, and
\* event files without their value column
Dialects ==
    {GeneratorDialect,
     [name |-> "full_name", att |-> "attendance_percentage", score |-> "test_score",
      due |-> "pending_amount"],
     [name |-> "name", att |-> "attendance_percentage", score |-> "score",
      due |-> "due_amount"],
     [name |-> "name", att |-> "", score |-> "", due |-> ""]}

Files(roster, a, t, f, d) ==
    [students   |-> StudentsFile(roster, d.name),
     attendance |-> EventFile(a, d.att),
     tests      |-> EventFile(t, d.score),
     fees       |-> EventFile(f, d.due)]

WithMissing(fs, miss) ==
    [src \in SourceNames |-> IF src \in miss THEN MissingFile ELSE fs[src]]

\* rosters: student_id is unique
Rosters ==
    {r \in SeqsUpTo(StudentIds, Cardinality(StudentIds)) :
        \A i, j \in DOMAIN r : i # j => r[i] # r[j]}

\* <<attendance events, test events, fee events>> with at most n events in all
EventTriples(A, T, F, n) ==
    UNION { UNION { UNION {
        {<<a, t, f>> : a \in [1..ka -> A], t \in [1..kt -> T], f \in [1..kf -> F]}
        : kf \in 0..(n - ka - kt)} : kt \in 0..(n - ka)} : ka \in 0..n}

InputFiles ==
    {Files(r, e[1], e[2], e[3], GeneratorDialect) :
        r \in Rosters,
        e \in EventTriples(StudentIds \X AttVals, StudentIds \X ScoreVals,
                           StudentIds \X FeeVals, MaxEvents)}

\* any of the four files may be missing, in every dialect
MissingInputs ==
    {WithMissing(Files(r, e[1], e[2], e[3], d), miss) :
        r \in Rosters,
        e \in EventTriples(StudentIds \X AttVals, StudentIds \X ScoreVals,
                           StudentIds \X FeeVals, MaxEvents - 1),
        d \in Dialects,
        miss \in SUBSET SourceNames}

\* one student whose events lie around the thresholds of risk_status
BoundaryInputs ==
    {Files(<<1>>, a, t, f, GeneratorDialect) :
        a \in SeqsUpTo({1} \X {74, 75, 89, 90}, MaxEvents),
        t \in SeqsUpTo({1} \X {40, 79, 80}, MaxEvents),
        f \in SeqsUpTo({1} \X {0, 500}, 1)}

\* the inputs of the two-student roster
SessionInputs ==
    {Files(<<1, 12>>, e[1], e[2], e[3], GeneratorDialect) :
        e \in EventTriples(StudentIds \X AttVals, StudentIds \X ScoreVals,
                           StudentIds \X FeeVals, MaxEvents - 1)}

-----------------------------------------------------------------------------
(* Criteria of the callback *)

SearchValues ==
    {[given |-> FALSE, text |-> <<>>]}
    \cup {[given |-> TRUE, text |-> t] :
            t \in {<<>>, <<"1">>, <<"2">>, <<"a", "l">>, <<".">>, <<"z">>}}

AllCriteria ==
    [search : SearchValues,
     att_range : {<<0, 100>>, <<75, 100>>, <<80, 20>>},
     score_range : {<<0, 100>>, <<60, 40>>},
     fees_range : {<<0, 5000>>, <<0, 10000>>, <<5000, 0>>},
     status : {"All", "Safe", "At Risk"}]

SessionCriteria ==
    {DefaultCriteria,
     [DefaultCriteria EXCEPT !.status = "At Risk"],
     [DefaultCriteria EXCEPT !.search = [given |-> TRUE, text |-> <<"2">>]],
     [DefaultCriteria EXCEPT !.att_range = <<75, 100>>]}

-----------------------------------------------------------------------------
(* Specifications *)

InitOn(inputs) ==
    /\ files \in inputs
    /\ version_file = [exists |-> FALSE, number |-> 0]
    /\ VERSION_STRING = <<>>
    /\ pc = "start"
    /\ err = ""
    /\ students = EmptyTable /\ attendance = EmptyTable
    /\ tests = EmptyTable /\ fees = EmptyTable
    /\ att_agg = EmptyTable /\ tests_agg = EmptyTable /\ fees_agg = EmptyTable
    /\ merged = EmptyTable
    /\ history = <<>>
    /\ sessions = [s \in Sessions |-> IdleSession]

\* the module-level script, lines 23-96
Run ==
    \/ get_next_version
    \/ LoadCSVs
    \/ Aggregate
    \/ Merge
    \/ Classify

\* the program started MaxRuns times on the same files
Init == InitOn(InputFiles)
Next == Run \/ Restart
Spec == Init /\ [][Next]_vars

\* one start, any of the files missing
InitMissing == InitOn(MissingInputs)
SpecMissing == InitMissing /\ [][Run]_vars

\* one start, one student around the thresholds
InitRisk == InitOn(BoundaryInputs)
SpecRisk == InitRisk /\ [][Run]_vars

\* one start, then one UI session calling with any criteria
NextFilter ==
    \/ Run
    \/ \E crit \in AllCriteria : BeginCall(1, crit)
    \/ FinishCall(1)
    \/ Respond(1)
SpecFilter == Init /\ [][NextFilter]_vars

\* one start, then the UI sessions calling concurrently
InitSessions == InitOn(SessionInputs)
NextSessions ==
    \/ Run
    \/ \E s \in Sessions, crit \in SessionCriteria : BeginCall(s, crit)
    \/ \E s \in Sessions : FinishCall(s)
    \/ \E s \in Sessions : Respond(s)
SpecSessions == InitSessions /\ [][NextSessions]_vars

-----------------------------------------------------------------------------
(* Properties *)

RosterIds == [i \in DOMAIN files.students.rows |-> files.students.rows[i].student_id]

MergedIds == [i \in DOMAIN merged.rows |-> merged.rows[i].student_id]

EventCount(src, id) ==
    Cardinality({i \in DOMAIN files[src].rows : files[src].rows[i].student_id = id})

NoEvents(id) ==
    /\ EventCount("attendance", id) = 0
    /\ EventCount("tests", id) = 0
    /\ EventCount("fees", id) = 0

Contains(reasons, label) == label \in Range(reasons)

\* C1 as stated: a roster student without any attendance, test or fee event
\* has avg_attendance = 0, avg_score = 0, due_amount = 0 and is classified
\* Safe with reasons "No issues".
C1_NoEventsIsSafe ==
    pc = "serving" =>
        \A i \in DOMAIN merged.rows :
            NoEvents(merged.rows[i].student_id) =>
                /\ merged.rows[i].attendance_percentage = 0
                /\ merged.rows[i].avg_score = 0
                /\ merged.rows[i].due_amount = 0
                /\ merged.rows[i].status = "Safe"
                /\ merged.rows[i].reasons = <<"No issues">>

\* C1 as amended: a roster student without any attendance, test or fee event
\* has avg_attendance = 0, avg_score = 0, due_amount = 0 after the left join
\* and zero-fill, and is classified At Risk with reasons
\* "Low Attendance; Low Test Score".
C1_NoEventsIsAtRisk ==
    pc = "serving" =>
        \A i \in DOMAIN merged.rows :
            NoEvents(merged.rows[i].student_id) =>
                /\ merged.rows[i].attendance_percentage = 0
                /\ merged.rows[i].avg_score = 0
                /\ merged.rows[i].due_amount = 0
                /\ merged.rows[i].status = "At Risk"
                /\ merged.rows[i].reasons
                      = <<"Low Attendance", "; ", "Low Test Score">>

C1_Witness ==
    /\ pc = "serving"
    /\ \E i, j \in DOMAIN merged.rows :
          /\ NoEvents(merged.rows[i].student_id)
          /\ ~NoEvents(merged.rows[j].student_id)

\* C2: a row is At Risk only if a negative threshold was crossed; a row with
\* attendance >= 75, avg_score >= 40 and due_amount = 0 is always Safe.
C2_AtRiskOnlyOnNegative ==
    pc = "serving" =>
        \A i \in DOMAIN merged.rows :
            (/\ merged.rows[i].attendance_percentage >= 75 * Scale
             /\ merged.rows[i].avg_score >= 40 * Scale
             /\ merged.rows[i].due_amount = 0)
            => merged.rows[i].status = "Safe"

\* C3: once the three left joins are done the table holds exactly one row per
\* roster student_id, in roster order, whatever events the files hold.
C3_OneRowPerRosterId ==
    (pc \in {"classify", "serving"} \/ err = "ValueError") => MergedIds = RosterIds

C3_Witness ==
    /\ pc = "serving"
    /\ Len(merged.rows) = 2
    /\ MergedIds = RosterIds
    /\ \E id \in Range(RosterIds) : NoEvents(id)
    /\ \E id \in Range(RosterIds), src \in {"attendance", "tests", "fees"} :
          EventCount(src, id) >= 2

\* C4: for each source whose file is missing the loader returns an empty
\* table with every required column of that source, and the script does not
\* end in an exception.
C4_MissingSourceNotFatal ==
    \A src \in SourceNames :
        ~files[src].exists =>
            /\ pc \notin {"start", "load"} =>
                  LET df == CASE src = "students" -> students
                              [] src = "attendance" -> attendance
                              [] src = "tests" -> tests
                              [] src = "fees" -> fees
                  IN  /\ df.rows = <<>>
                      /\ Range(RequiredCols(src)) \subseteq Range(df.cols)
            /\ pc # "error"

\* C5: a call with the initial values of all controls returns the whole
\* profile table, in order.
C5_DefaultCriteriaReturnAll ==
    (pc = "serving" /\ sessions[1].pc = "returned"
        /\ sessions[1].crit = DefaultCriteria)
    => sessions[1].filtered = merged.rows

Inverted(range) == range[1] > range[2]

\* the result when a range with low > high imposes no restriction
IdentityOnInverted(rows, col, range, unit) ==
    IF Inverted(range) THEN rows ELSE RangeFilter(rows, col, range, unit)

InvertedAsAbsent(rows, crit) ==
    StatusFilter(
        IdentityOnInverted(
            IdentityOnInverted(
                IdentityOnInverted(SearchFilter(rows, crit.search),
                                   "attendance_percentage", crit.att_range, Scale),
                "avg_score", crit.score_range, Scale),
            "due_amount", crit.fees_range, 1),
        crit.status)

\* C6: a range whose low bound exceeds its high bound imposes no restriction:
\* the call returns what it returns without that range.
C6_InvertedRangeIsIdentity ==
    (pc = "serving" /\ sessions[1].pc = "returned"
        /\ \/ Inverted(sessions[1].crit.att_range)
           \/ Inverted(sessions[1].crit.score_range)
           \/ Inverted(sessions[1].crit.fees_range))
    => sessions[1].filtered = InvertedAsAbsent(merged.rows, sessions[1].crit)

\* text is a substring of s, letter case ignored or not
IsSubstring(text, s, ignorecase) ==
    \E off \in 0..(Len(s) - Len(text)) :
        \A i \in 1..Len(text) :
            IF ignorecase THEN Lower(text[i]) = Lower(s[off + i])
            ELSE text[i] = s[off + i]

\* no row of the table is removed by the ranges and the status of crit
OthersUnrestrictive(crit) ==
    update_dashboard(merged.rows,
                     [crit EXCEPT !.search = [given |-> FALSE, text |-> <<>>]])
        = merged.rows

\* C7: with the other criteria unrestrictive, a non-empty search text returns
\* exactly the students whose student_id as text contains it or whose name
\* contains it, letter case ignored.
C7_SearchIsSubstring ==
    (pc = "serving" /\ sessions[1].pc = "returned"
        /\ sessions[1].crit.search.given
        /\ sessions[1].crit.search.text # <<>>
        /\ OthersUnrestrictive(sessions[1].crit))
    => sessions[1].filtered =
          SelectRows(merged.rows,
             [i \in DOMAIN merged.rows |->
                \/ IsSubstring(sessions[1].crit.search.text,
                               Str(merged.rows[i].student_id), FALSE)
                \/ IsSubstring(sessions[1].crit.search.text,
                               merged.rows[i].name, TRUE)])

\* C8: every completed run on the same files built the same profile table,
\* although each start wrote a new number to version.txt.
C8_RunsAgree ==
    /\ \A i, j \in DOMAIN history : history[i] = history[j]
    /\ pc = "serving" =>
          /\ merged = history[1]
          /\ VERSION_STRING = <<"beta_">> \o Str(Len(history))

C8_Witness ==
    /\ pc = "serving"
    /\ Len(history) >= 2
    /\ version_file.number >= 2
    /\ Len(merged.rows) = 2

\* C9: while the program serves, the shared table is the one built at load,
\* and what a call returned is what its criteria select from that table.
C9_SharedTableUntouched ==
    pc = "serving" =>
        /\ merged = history[Len(history)]
        /\ \A s \in Sessions :
              sessions[s].pc = "returned" =>
                  sessions[s].filtered
                      = update_dashboard(history[Len(history)].rows,
                                         sessions[s].crit)

C9_Witness ==
    /\ pc = "serving"
    /\ \E s, t \in Sessions :
          /\ sessions[s].pc = "returned"
          /\ sessions[t].pc = "returned"
          /\ sessions[s].crit # sessions[t].crit
          /\ sessions[s].filtered # sessions[t].filtered
          /\ sessions[s].filtered # <<>>
          /\ Len(sessions[s].filtered) < Len(merged.rows)

\* C10: the reasons hold "Low Attendance" exactly when the average attendance
\* is below 75 and "Excellent Attendance" exactly when it is at least 90,
\* never both; at exactly 75 they hold neither.
C10_AttendanceLabels ==
    pc = "serving" =>
        \A i \in DOMAIN merged.rows :
            LET att == merged.rows[i].attendance_percentage
                rs  == merged.rows[i].reasons
            IN  /\ Contains(rs, "Low Attendance") <=> att < 75 * Scale
                /\ Contains(rs, "Excellent Attendance") <=> att >= 90 * Scale
                /\ ~(Contains(rs, "Low Attendance")
                       /\ Contains(rs, "Excellent Attendance"))

C10_Witness ==
    /\ pc = "serving"
    /\ \E i \in DOMAIN merged.rows :
          /\ merged.rows[i].attendance_percentage = 75 * Scale
          /\ ~Contains(merged.rows[i].reasons, "Low Attendance")
          /\ ~Contains(merged.rows[i].reasons, "Excellent Attendance")

=============================================================================
